---- MODULE Spec2Model ----
(***************************************************************************)
(* A model of the blog post generator (scripts/generate-blog.ts, in its    *)
(* two revisions): the history reader, the topic and image selectors, the  *)
(* single request to the remote API, and the document writer with its      *)
(* index upsert.  Strings are TLA+ strings, read character by character    *)
(* with Head, Tail and SubSeq.                                             *)
(***************************************************************************)
EXTENDS Integers, Sequences, FiniteSets, TLC

VARIABLES
    postsIndex,     \* the file posts/index.json, which the history reader loads
    genDir,         \* whether the directory generated-posts exists
    genIndex,       \* the file generated-posts/index.json, which the writer rewrites
    genDocs,        \* the names of the document files in generated-posts
    pc,             \* per run: where the run stands
    env,            \* per run: the environment (DEEPSEEK_API_KEY set or not, TOPIC)
    usedImages,     \* per run: getRecentlyUsedImages()
    usedTopics,     \* per run: getRecentTopics()
    selectedTopic,  \* per run
    selectedImage,  \* per run
    response,       \* per run: what the remote API answered
    slug,           \* per run
    filename,       \* per run
    posts,          \* per run: the index as loaded by the writer
    exitCode,       \* per run: NotExited, 0 or 1
    error,          \* per run: the error the catch block reports, "" when none
    steps,          \* per run: the steps completed so far, in order
    requests,       \* per run: the requests the remote API has received from it
    fsAtLaunch,     \* per run: <<genDir, genIndex, genDocs>> when the run started
    runsLeft,       \* the runs still to be started
    slugIn,         \* the title handed to generateSlug
    slugOut,        \* generateSlug(slugIn), once computed
    slugOut2,       \* generateSlug(slugOut), once computed
    slugPc          \* "idle", or "in" -> "once" -> "twice"

fsVars == <<postsIndex, genDir, genIndex, genDocs>>

runVars == <<pc, env, usedImages, usedTopics, selectedTopic, selectedImage, response,
             slug, filename, posts, exitCode, error, steps, requests, fsAtLaunch,
             runsLeft>>

slugVars == <<slugIn, slugOut, slugOut2, slugPc>>

vars == <<fsVars, runVars, slugVars>>

-----------------------------------------------------------------------------
(* Strings *)

UpperLetters == "ABCDEFGHIJKLMNOPQRSTUVWXYZ"
LowerLetters == "abcdefghijklmnopqrstuvwxyz"
Digits == "0123456789"

\* the i-th character of s, as a string of length one
CharAt(s, i) == SubSeq(s, i, i)

CharsOf(s) == {CharAt(s, i) : i \in 1..Len(s)}

\* \s of a JavaScript regular expression, and what trim() strips
IsWhitespace(c) == c \in {" ", "\t", "\n"}

UpperChars == CharsOf(UpperLetters)

LowerOf == [c \in UpperChars |->
               CharAt(LowerLetters, CHOOSE i \in 1..Len(UpperLetters) : CharAt(UpperLetters, i) = c)]

LowerChar(c) == IF c \in UpperChars THEN LowerOf[c] ELSE c

\* character by character; the string is halved to keep the recursion shallow
RECURSIVE toLowerCase(_)
toLowerCase(s) ==
    IF Len(s) = 0 THEN ""
    ELSE IF Len(s) = 1 THEN LowerChar(s)
    ELSE toLowerCase(SubSeq(s, 1, Len(s) \div 2))
             \o toLowerCase(SubSeq(s, Len(s) \div 2 + 1, Len(s)))

\* String.prototype.includes
includes(s, sub) ==
    \E i \in 0..(Len(s) - Len(sub)) : SubSeq(s, i + 1, i + Len(sub)) = sub

\* String.prototype.substring(0, n)
substring0(s, n) == IF Len(s) <= n THEN s ELSE SubSeq(s, 1, n)

RECURSIVE trimStart(_)
trimStart(s) ==
    IF s # "" /\ IsWhitespace(Head(s)) THEN trimStart(Tail(s)) ELSE s

RECURSIVE trimEnd(_)
trimEnd(s) ==
    IF s # "" /\ IsWhitespace(CharAt(s, Len(s)))
    THEN trimEnd(SubSeq(s, 1, Len(s) - 1))
    ELSE s

trim(s) == trimEnd(trimStart(s))

-----------------------------------------------------------------------------
(* Arrays *)

Min(a, b) == IF a < b THEN a ELSE b

\* Array.prototype.includes
arrayIncludes(arr, x) == \E i \in 1..Len(arr) : arr[i] = x

\* String.prototype.split(' '): the pieces between the spaces, empty ones included
splitOnSpace(s) ==
    LET spaces == {i \in 1..Len(s) : CharAt(s, i) = " "}
        \* the position of the k-th space; 0 before the first, Len(s) + 1 after the last
        spaceAt(k) == IF k = 0 THEN 0
                      ELSE IF k > Cardinality(spaces) THEN Len(s) + 1
                      ELSE CHOOSE i \in spaces : Cardinality({j \in spaces : j < i}) = k - 1
    IN  [k \in 1..(Cardinality(spaces) + 1) |-> SubSeq(s, spaceAt(k - 1) + 1, spaceAt(k) - 1)]

\* Math.random() is num/den in [0, 1); this is Math.floor(Math.random() * n)
randomIndex(r, n) == (r.num * n) \div r.den

RandomValues(den) == {[num |-> k, den |-> den] : k \in 0..(den - 1)}

-----------------------------------------------------------------------------
(* The topic pool and the curated images *)

TOPIC_POOL == <<
    [topic |-> "How to Write a Compelling Thesis Introduction", category |-> "Writing Tips", featured |-> TRUE],
    [topic |-> "Mastering Academic Writing Style: Tips for Graduate Students", category |-> "Writing Tips", featured |-> FALSE],
    [topic |-> "Common Thesis Writing Mistakes and How to Avoid Them", category |-> "Writing Tips", featured |-> TRUE],
    [topic |-> "How to Write a Strong Thesis Conclusion That Impresses", category |-> "Writing Tips", featured |-> FALSE],
    [topic |-> "Transition Words and Phrases for Academic Writing", category |-> "Writing Tips", featured |-> FALSE],
    [topic |-> "How to Improve Your Academic Vocabulary", category |-> "Writing Tips", featured |-> FALSE],
    [topic |-> "Qualitative vs Quantitative Research: Choosing the Right Method", category |-> "Research", featured |-> TRUE],
    [topic |-> "How to Conduct a Systematic Literature Review", category |-> "Research", featured |-> TRUE],
    [topic |-> "Primary vs Secondary Sources: A Complete Guide", category |-> "Research", featured |-> FALSE],
    [topic |-> "Research Ethics: Guidelines Every Graduate Student Must Know", category |-> "Research", featured |-> FALSE],
    [topic |-> "How to Find Credible Sources for Your Thesis", category |-> "Research", featured |-> FALSE],
    [topic |-> "Data Collection Methods for Academic Research", category |-> "Research", featured |-> FALSE],
    [topic |-> "AI Tools That Will Transform Your Thesis Writing in 2026", category |-> "Technology", featured |-> TRUE],
    [topic |-> "Best Reference Management Software for Researchers", category |-> "Technology", featured |-> FALSE],
    [topic |-> "How AI is Revolutionizing Academic Writing", category |-> "Technology", featured |-> TRUE],
    [topic |-> "Plagiarism Detection Tools: What Every Student Should Know", category |-> "Technology", featured |-> FALSE],
    [topic |-> "Using AI for Literature Review: A Complete Guide", category |-> "Technology", featured |-> FALSE],
    [topic |-> "Digital Tools for Organizing Your Research", category |-> "Technology", featured |-> FALSE],
    [topic |-> "Time Management Strategies for Thesis Writers", category |-> "Productivity", featured |-> TRUE],
    [topic |-> "How to Overcome Writer's Block When Writing Your Thesis", category |-> "Productivity", featured |-> FALSE],
    [topic |-> "Creating a Realistic Thesis Writing Schedule", category |-> "Productivity", featured |-> FALSE],
    [topic |-> "Work-Life Balance During Graduate School", category |-> "Productivity", featured |-> FALSE],
    [topic |-> "Productivity Apps Every Graduate Student Needs", category |-> "Productivity", featured |-> FALSE],
    [topic |-> "How to Stay Motivated During Long Research Projects", category |-> "Productivity", featured |-> TRUE],
    [topic |-> "Complete Guide to Thesis Formatting and Structure", category |-> "Guides", featured |-> TRUE],
    [topic |-> "APA vs MLA vs Chicago: Citation Styles Explained", category |-> "Guides", featured |-> FALSE],
    [topic |-> "How to Prepare for Your Thesis Defense", category |-> "Guides", featured |-> TRUE],
    [topic |-> "Step-by-Step Guide to Writing Your Methodology Chapter", category |-> "Guides", featured |-> FALSE],
    [topic |-> "Understanding the Thesis Approval Process", category |-> "Guides", featured |-> FALSE],
    [topic |-> "How to Choose the Perfect Thesis Topic", category |-> "Guides", featured |-> TRUE]
>>

categoryImages ==
    "Writing Tips" :> <<
        "https://images.unsplash.com/photo-1455390582262-044cdead277a?w=800&q=80",
        "https://images.unsplash.com/photo-1486312338219-ce68d2c6f44d?w=800&q=80",
        "https://images.unsplash.com/photo-1499750310107-5fef28a66643?w=800&q=80",
        "https://images.unsplash.com/photo-1434030216411-0b793f4b4173?w=800&q=80",
        "https://images.unsplash.com/photo-1456324504439-367cee3b3c32?w=800&q=80",
        "https://images.unsplash.com/photo-1488190211105-8b0e65b80b4e?w=800&q=80"
    >> @@
    "Research" :> <<
        "https://images.unsplash.com/photo-1456324463128-7ff6903988d8?w=800&q=80",
        "https://images.unsplash.com/photo-1481627834876-b7833e8f5570?w=800&q=80",
        "https://images.unsplash.com/photo-1524995997946-a1c2e315a42f?w=800&q=80",
        "https://images.unsplash.com/photo-1497633762265-9d179a990aa6?w=800&q=80",
        "https://images.unsplash.com/photo-1513475382585-d06e58bcb0e0?w=800&q=80",
        "https://images.unsplash.com/photo-1507003211169-0a1dd7228f2d?w=800&q=80"
    >> @@
    "Technology" :> <<
        "https://images.unsplash.com/photo-1677442136019-21780ecad995?w=800&q=80",
        "https://images.unsplash.com/photo-1620712943543-bcc4688e7485?w=800&q=80",
        "https://images.unsplash.com/photo-1555255707-c07966088b7b?w=800&q=80",
        "https://images.unsplash.com/photo-1518770660439-4636190af475?w=800&q=80",
        "https://images.unsplash.com/photo-1485827404703-89b55fcc595e?w=800&q=80",
        "https://images.unsplash.com/photo-1519389950473-47ba0277781c?w=800&q=80"
    >> @@
    "Productivity" :> <<
        "https://images.unsplash.com/photo-1484480974693-6ca0a78fb36b?w=800&q=80",
        "https://images.unsplash.com/photo-1506784983877-45594efa4cbe?w=800&q=80",
        "https://images.unsplash.com/photo-1553877522-43269d4ea984?w=800&q=80",
        "https://images.unsplash.com/photo-1551434678-e076c223a692?w=800&q=80",
        "https://images.unsplash.com/photo-1454165804606-c3d57bc86b40?w=800&q=80",
        "https://images.unsplash.com/photo-1522202176988-66273c2fd55f?w=800&q=80"
    >> @@
    "Guides" :> <<
        "https://images.unsplash.com/photo-1523050854058-8df90110c9f1?w=800&q=80",
        "https://images.unsplash.com/photo-1541339907198-e08756dedf3f?w=800&q=80",
        "https://images.unsplash.com/photo-1427504494785-3a9ca7044f45?w=800&q=80",
        "https://images.unsplash.com/photo-1562774053-701939374585?w=800&q=80",
        "https://images.unsplash.com/photo-1523580494863-6f3031224c94?w=800&q=80",
        "https://images.unsplash.com/photo-1503676260728-1c00da094a0b?w=800&q=80"
    >>

PoolSize == Len(TOPIC_POOL)

DefaultCategory == "Guides"

-----------------------------------------------------------------------------
(* The index file and the history reader *)

\* what a property read gives when the JSON value has no such property
Undefined == "<undefined>"

\* An index file is absent, or holds text that JSON.parse rejects ("malformed"),
\* or holds a JSON value that is no array ("object"), or holds an array.
AbsentFile == [kind |-> "absent", items |-> <<>>]
MalformedFile == [kind |-> "malformed", items |-> <<>>]
ObjectFile == [kind |-> "object", items |-> <<>>]
ArrayFile(items) == [kind |-> "array", items |-> items]

\* fs.existsSync
existsSync(file) == file.kind # "absent"

RecentImageWindow == 15

\* getRecentlyUsedImages: [] when the file is absent or anything throws
getRecentlyUsedImages(file) ==
    IF ~ existsSync(file) THEN <<>>
    ELSE IF file.kind = "malformed" THEN <<>>    \* JSON.parse throws
    ELSE IF file.kind = "object" THEN <<>>       \* posts.slice is not a function
    ELSE [i \in 1..Min(RecentImageWindow, Len(file.items)) |-> file.items[i].image]

\* the titles taken from the window of the images
getRecentTopics_Windowed(file) ==
    IF ~ existsSync(file) THEN <<>>
    ELSE IF file.kind = "malformed" THEN <<>>
    ELSE IF file.kind = "object" THEN <<>>
    ELSE IF \E i \in 1..Len(file.items) : file.items[i].title = Undefined
         THEN <<>>
    ELSE [i \in 1..Min(RecentImageWindow, Len(file.items)) |->
             toLowerCase(file.items[i].title)]

\* getRecentTopics: [] when the file is absent or anything throws
getRecentTopics(file) ==
    IF ~ existsSync(file) THEN <<>>
    ELSE IF file.kind = "malformed" THEN <<>>    \* JSON.parse throws
    ELSE IF file.kind = "object" THEN <<>>       \* posts.map is not a function
    ELSE IF \E i \in 1..Len(file.items) : file.items[i].title = Undefined
         THEN <<>>                               \* undefined.toLowerCase throws
    ELSE [i \in 1..Len(file.items) |-> toLowerCase(file.items[i].title)]

-----------------------------------------------------------------------------
(* The selectors *)

\* the recently used images are not filtered out
selectUniqueImage_NoFilter(category, recentImages, r) ==
    LET images == IF category \in DOMAIN categoryImages
                  THEN categoryImages[category]
                  ELSE categoryImages[DefaultCategory]
    IN  images[randomIndex(r, Len(images)) + 1]

\* categoryImages is an object literal: a name it does not define is looked up
\* in Object.prototype, which answers these names with a function or an object
ObjectPrototypeNames == {
    "constructor", "toString", "toLocaleString", "valueOf", "hasOwnProperty",
    "isPrototypeOf", "propertyIsEnumerable", "__proto__" }

\* what selectUniqueImage gives when images.filter is no function
ImageTypeError == "TypeError: images.filter is not a function"

\* categoryImages[category] || categoryImages['Guides']: the left operand is the
\* category's list, or an inherited property (truthy, and no array), or undefined
selectUniqueImage(category, recentImages, r) ==
    IF category \notin DOMAIN categoryImages /\ category \in ObjectPrototypeNames
    THEN ImageTypeError
    ELSE
    LET images == IF category \in DOMAIN categoryImages
                  THEN categoryImages[category]
                  ELSE categoryImages[DefaultCategory]
        availableImages == SelectSeq(images, LAMBDA img : ~ arrayIncludes(recentImages, img))
        imagesToChooseFrom == IF Len(availableImages) > 0 THEN availableImages ELSE images
    IN  imagesToChooseFrom[randomIndex(r, Len(imagesToChooseFrom)) + 1]

MinWordLen == 4

\* .split(' ').filter(w => w.length > 4)
longWords(s) == SelectSeq(splitOnSpace(s), LAMBDA w : Len(w) > MinWordLen)

\* the test of the inner some(): matches.length > topicWords.length * 0.4
\* (m > n * 0.4 in doubles is 10 m > 4 n for every n below 40)
overlapsTooMuch(topicLower, used) ==
    LET topicWords == longWords(topicLower)
        usedWords == longWords(used)
        matches == SelectSeq(topicWords, LAMBDA w : arrayIncludes(usedWords, w))
    IN  10 * Len(matches) > 4 * Len(topicWords)

ReuseThreshold == 5

availableTopicsOf(recentTopics) ==
    SelectSeq(TOPIC_POOL, LAMBDA t :
        ~ \E k \in 1..Len(recentTopics) : overlapsTooMuch(toLowerCase(t.topic), recentTopics[k]))

\* the fallback to the whole pool taken one topic too early
selectUniqueTopic_EarlyFallback(recentTopics, r) ==
    LET availableTopics == availableTopicsOf(recentTopics)
        topicsToChoose == IF Len(availableTopics) > ReuseThreshold + 1
                          THEN availableTopics
                          ELSE TOPIC_POOL
    IN  topicsToChoose[randomIndex(r, Len(topicsToChoose)) + 1]

selectUniqueTopic(recentTopics, r) ==
    LET availableTopics == availableTopicsOf(recentTopics)
        topicsToChoose == IF Len(availableTopics) > ReuseThreshold
                          THEN availableTopics
                          ELSE TOPIC_POOL
    IN  topicsToChoose[randomIndex(r, Len(topicsToChoose)) + 1]

\* the match tried in one direction only
matchesProvided_OneWay(t, providedTopic) ==
    includes(toLowerCase(t.topic), toLowerCase(providedTopic))

\* the predicate of TOPIC_POOL.find for a caller-supplied topic
matchesProvided(t, providedTopic) ==
    \/ includes(toLowerCase(t.topic), toLowerCase(providedTopic))
    \/ includes(toLowerCase(providedTopic), toLowerCase(t.topic))

\* Array.prototype.find over TOPIC_POOL from position i on: the position of the
\* first match, or 0
RECURSIVE findMatch(_, _)
findMatch(providedTopic, i) ==
    IF i > PoolSize THEN 0
    ELSE IF matchesProvided(TOPIC_POOL[i], providedTopic) THEN i
    ELSE findMatch(providedTopic, i + 1)

\* lines 239-254: the caller's topic when one is given, else a random unused one
chooseTopic(providedTopic, recentTopics, r) ==
    IF providedTopic # "" /\ trim(providedTopic) # ""
    THEN LET matched == findMatch(providedTopic, 1)
         IN  IF matched # 0
             THEN TOPIC_POOL[matched]
             ELSE [topic |-> providedTopic, category |-> DefaultCategory, featured |-> FALSE]
    ELSE selectUniqueTopic(recentTopics, r)

-----------------------------------------------------------------------------
(* generateSlug *)

SlugMaxLen == 60

\* the characters /[^a-z0-9\s-]/ does not match
LowerChars == CharsOf(LowerLetters)
DigitChars == CharsOf(Digits)

\* the character class written without its hyphen: /[^a-z0-9\s]/
IsSlugSourceChar_NoHyphen(c) ==
    \/ c \in LowerChars
    \/ c \in DigitChars
    \/ IsWhitespace(c)

IsSlugSourceChar(c) ==
    \/ c \in LowerChars
    \/ c \in DigitChars
    \/ IsWhitespace(c)
    \/ c = "-"

\* .replace(/[^a-z0-9\s-]/g, '')
RECURSIVE stripNonSlugChars(_)
stripNonSlugChars(s) ==
    IF s = "" THEN ""
    ELSE (IF IsSlugSourceChar(Head(s)) THEN Head(s) ELSE "") \o stripNonSlugChars(Tail(s))

\* .replace(/\s+/g, '-'): every maximal run of whitespace becomes one hyphen
RECURSIVE whitespaceToHyphen(_)
whitespaceToHyphen(s) ==
    IF s = "" THEN ""
    ELSE IF IsWhitespace(Head(s))
         THEN "-" \o whitespaceToHyphen(trimStart(s))
         ELSE Head(s) \o whitespaceToHyphen(Tail(s))

\* .replace(/-+/g, '-'): every maximal run of hyphens becomes one hyphen
RECURSIVE collapseHyphens(_)
collapseHyphens(s) ==
    IF s = "" THEN ""
    ELSE IF Head(s) = "-" /\ Tail(s) # "" /\ Head(Tail(s)) = "-"
         THEN collapseHyphens(Tail(s))
         ELSE Head(s) \o collapseHyphens(Tail(s))

generateSlug(title) ==
    substring0(trim(collapseHyphens(whitespaceToHyphen(stripNonSlugChars(toLowerCase(title))))),
               SlugMaxLen)

-----------------------------------------------------------------------------
(* The records of a run *)

Procs == {1, 2}

NotExited == -1

NoTopic == [topic |-> "", category |-> "", featured |-> FALSE]

Tags(items) == [defined |-> TRUE, items |-> items]
NoTags == [defined |-> FALSE, items |-> <<>>]

\* The remote API fails before answering ("network"), answers with a non-success
\* status ("notok"), with no message content ("empty"), with content that is not
\* JSON ("unparseable"), or with a JSON object ("payload").  slug "" is a payload
\* whose slug is missing or empty, which blogData.slug || ... treats alike.
Reply(kind) == [kind |-> kind, title |-> "", slug |-> "", tags |-> NoTags]
Payload(title, sl, tags) == [kind |-> "payload", title |-> title, slug |-> sl, tags |-> tags]

NoResponse == Reply("none")

Payloads == {
    Payload("Thesis Defense Tips", "", Tags(<<"thesis", "defense">>)),
    Payload("Thesis Defense: Tips!", "thesis-defense-tips", Tags(<<"thesis">>)),
    Payload("AI Tools", "ai-tools", Tags(<<"ai">>)),
    Payload("AI  Tools", "", NoTags) }

Responses == {Reply("network"), Reply("notok"), Reply("empty"), Reply("unparseable")}
             \cup Payloads

\* new Date().toISOString().split('T')[0]
Today == "2026-01-05"

\* a record of the index, as JSON.stringify writes it and JSON.parse reads it back
Post(sl, title, date, category, image, featured, file, tags) ==
    [slug |-> sl, title |-> title, date |-> date, category |-> category,
     image |-> image, featured |-> featured, filename |-> file, tags |-> tags]

\* an element of an index array that is no post record, such as {}
OtherShape ==
    Post(Undefined, Undefined, Undefined, Undefined, Undefined, FALSE, Undefined, NoTags)

\* lines 399-414
newPost(p) ==
    Post(slug[p], response[p].title, Today, selectedTopic[p].category,
         selectedImage[p], selectedTopic[p].featured, filename[p], response[p].tags)

-----------------------------------------------------------------------------
(* The steps of a run *)

Exit(p, code) ==
    /\ pc' = [pc EXCEPT ![p] = "exited"]
    /\ exitCode' = [exitCode EXCEPT ![p] = code]

\* lines 438-441: whatever is thrown inside the try block ends the process with 1
Fail(p, err) ==
    /\ Exit(p, 1)
    /\ error' = [error EXCEPT ![p] = err]

Did(p, step) == steps' = [steps EXCEPT ![p] = Append(@, step)]

\* the script without its check of the API key
Launch_NoKeyCheck(p, topics) ==
    /\ pc[p] \in {"idle", "exited"}
    /\ runsLeft > 0
    /\ runsLeft' = runsLeft - 1
    /\ \E key \in BOOLEAN, topic \in topics :
          env' = [env EXCEPT ![p] = [apiKey |-> key, TOPIC |-> topic]]
    /\ pc' = [pc EXCEPT ![p] = "history"]
    /\ exitCode' = [exitCode EXCEPT ![p] = NotExited]
    /\ error' = [error EXCEPT ![p] = ""]
    /\ usedImages' = [usedImages EXCEPT ![p] = <<>>]
    /\ usedTopics' = [usedTopics EXCEPT ![p] = <<>>]
    /\ selectedTopic' = [selectedTopic EXCEPT ![p] = NoTopic]
    /\ selectedImage' = [selectedImage EXCEPT ![p] = ""]
    /\ response' = [response EXCEPT ![p] = NoResponse]
    /\ slug' = [slug EXCEPT ![p] = ""]
    /\ filename' = [filename EXCEPT ![p] = ""]
    /\ posts' = [posts EXCEPT ![p] = AbsentFile]
    /\ steps' = [steps EXCEPT ![p] = <<>>]
    /\ requests' = [requests EXCEPT ![p] = 0]
    /\ fsAtLaunch' = [fsAtLaunch EXCEPT ![p] = <<genDir, genIndex, genDocs>>]
    /\ UNCHANGED <<fsVars, slugVars>>

\* lines 19-25 and 174: the script starts; without the API key it exits at once
Launch(p, topics) ==
    /\ pc[p] \in {"idle", "exited"}
    /\ runsLeft > 0
    /\ runsLeft' = runsLeft - 1
    /\ \E key \in BOOLEAN, topic \in topics :
          /\ env' = [env EXCEPT ![p] = [apiKey |-> key, TOPIC |-> topic]]
          /\ IF ~ key
             THEN Exit(p, 1)
             ELSE /\ pc' = [pc EXCEPT ![p] = "history"]
                  /\ exitCode' = [exitCode EXCEPT ![p] = NotExited]
    /\ error' = [error EXCEPT ![p] = ""]
    /\ usedImages' = [usedImages EXCEPT ![p] = <<>>]
    /\ usedTopics' = [usedTopics EXCEPT ![p] = <<>>]
    /\ selectedTopic' = [selectedTopic EXCEPT ![p] = NoTopic]
    /\ selectedImage' = [selectedImage EXCEPT ![p] = ""]
    /\ response' = [response EXCEPT ![p] = NoResponse]
    /\ slug' = [slug EXCEPT ![p] = ""]
    /\ filename' = [filename EXCEPT ![p] = ""]
    /\ posts' = [posts EXCEPT ![p] = AbsentFile]
    /\ steps' = [steps EXCEPT ![p] = <<>>]
    /\ requests' = [requests EXCEPT ![p] = 0]
    /\ fsAtLaunch' = [fsAtLaunch EXCEPT ![p] = <<genDir, genIndex, genDocs>>]
    /\ UNCHANGED <<fsVars, slugVars>>

\* the history taken from the index the Document Writer rewrites
ReadHistory_FromGenerated(p) ==
    /\ pc[p] = "history"
    /\ usedImages' = [usedImages EXCEPT ![p] = getRecentlyUsedImages(genIndex)]
    /\ usedTopics' = [usedTopics EXCEPT ![p] = getRecentTopics(genIndex)]
    /\ Did(p, "history")
    /\ pc' = [pc EXCEPT ![p] = "topic"]
    /\ UNCHANGED <<fsVars, slugVars, env, selectedTopic, selectedImage, response, slug,
                   filename, posts, exitCode, error, requests, fsAtLaunch, runsLeft>>

\* lines 233-234: both history functions read posts/index.json (lines 116, 130)
ReadHistory(p) ==
    /\ pc[p] = "history"
    /\ usedImages' = [usedImages EXCEPT ![p] = getRecentlyUsedImages(postsIndex)]
    /\ usedTopics' = [usedTopics EXCEPT ![p] = getRecentTopics(postsIndex)]
    /\ Did(p, "history")
    /\ pc' = [pc EXCEPT ![p] = "topic"]
    /\ UNCHANGED <<fsVars, slugVars, env, selectedTopic, selectedImage, response, slug,
                   filename, posts, exitCode, error, requests, fsAtLaunch, runsLeft>>

\* lines 236-254
SelectTopic(p, randoms) ==
    /\ pc[p] = "topic"
    /\ \E r \in randoms :
          selectedTopic' = [selectedTopic EXCEPT ![p] =
                               chooseTopic(env[p].TOPIC, usedTopics[p], r)]
    /\ Did(p, "topic")
    /\ pc' = [pc EXCEPT ![p] = "image"]
    /\ UNCHANGED <<fsVars, slugVars, env, usedImages, usedTopics, selectedImage, response,
                   slug, filename, posts, exitCode, error, requests, fsAtLaunch, runsLeft>>

\* line 257
SelectImage(p, randoms) ==
    /\ pc[p] = "image"
    /\ \E r \in randoms :
          LET image == selectUniqueImage(selectedTopic[p].category, usedImages[p], r)
          IN  IF image = ImageTypeError
              THEN \* thrown outside the try block: the promise of line 444 is
                   \* rejected and nothing handles it, which ends the process with 1
                   /\ Fail(p, ImageTypeError)
                   /\ UNCHANGED <<selectedImage, steps>>
              ELSE /\ selectedImage' = [selectedImage EXCEPT ![p] = image]
                   /\ Did(p, "image")
                   /\ pc' = [pc EXCEPT ![p] = "request"]
                   /\ UNCHANGED <<exitCode, error>>
    /\ UNCHANGED <<fsVars, slugVars, env, usedImages, usedTopics, selectedTopic, response,
                   slug, filename, posts, requests, fsAtLaunch, runsLeft>>

\* lines 319-341: the request leaves; the run waits for the answer
SendRequest(p) ==
    /\ pc[p] = "request"
    /\ requests' = [requests EXCEPT ![p] = @ + 1]
    /\ Did(p, "request")
    /\ pc' = [pc EXCEPT ![p] = "awaiting"]
    /\ UNCHANGED <<fsVars, slugVars, env, usedImages, usedTopics, selectedTopic,
                   selectedImage, response, slug, filename, posts, exitCode, error,
                   fsAtLaunch, runsLeft>>

\* what is thrown for an answer that is no payload (lines 319, 345, 351, 354)
ErrorOfReply(kind) ==
    IF kind = "network" THEN "fetch failed"
    ELSE IF kind = "notok" THEN "DeepSeek API error"
    ELSE IF kind = "empty" THEN "No response from AI"
    ELSE "SyntaxError: content is not JSON"

\* the answer used without the test of response.ok: the error body of a
\* non-success answer is taken for the payload
ReceiveResponse_NoStatusCheck(p) ==
    /\ pc[p] = "awaiting"
    /\ \E resp \in Responses :
          /\ response' = [response EXCEPT ![p] = resp]
          /\ IF resp.kind \in {"payload", "notok"}
             THEN LET sl == IF resp.slug # "" THEN resp.slug ELSE generateSlug(resp.title)
                  IN  /\ slug' = [slug EXCEPT ![p] = sl]
                      /\ filename' = [filename EXCEPT ![p] = Today \o "-" \o sl \o ".mdx"]
                      /\ pc' = [pc EXCEPT ![p] = "writeDoc"]
                      /\ UNCHANGED <<exitCode, error>>
             ELSE /\ Fail(p, ErrorOfReply(resp.kind))
                  /\ UNCHANGED <<slug, filename>>
    /\ UNCHANGED <<fsVars, slugVars, env, usedImages, usedTopics, selectedTopic,
                   selectedImage, posts, steps, requests, fsAtLaunch, runsLeft>>

\* the request sent again after a network failure
ReceiveResponse_Retry(p) ==
    /\ pc[p] = "awaiting"
    /\ \E resp \in Responses :
          /\ response' = [response EXCEPT ![p] = resp]
          /\ IF resp.kind = "payload"
             THEN LET sl == IF resp.slug # "" THEN resp.slug ELSE generateSlug(resp.title)
                  IN  /\ slug' = [slug EXCEPT ![p] = sl]
                      /\ filename' = [filename EXCEPT ![p] = Today \o "-" \o sl \o ".mdx"]
                      /\ pc' = [pc EXCEPT ![p] = "writeDoc"]
                      /\ UNCHANGED <<exitCode, error>>
             ELSE IF resp.kind = "network"
             THEN /\ pc' = [pc EXCEPT ![p] = "request"]
                  /\ UNCHANGED <<slug, filename, exitCode, error>>
             ELSE /\ Fail(p, ErrorOfReply(resp.kind))
                  /\ UNCHANGED <<slug, filename>>
    /\ UNCHANGED <<fsVars, slugVars, env, usedImages, usedTopics, selectedTopic,
                   selectedImage, posts, steps, requests, fsAtLaunch, runsLeft>>

\* lines 343-357, and the catch of lines 438-441
ReceiveResponse(p) ==
    /\ pc[p] = "awaiting"
    /\ \E resp \in Responses :
          /\ response' = [response EXCEPT ![p] = resp]
          /\ IF resp.kind = "payload"
             THEN LET sl == IF resp.slug # "" THEN resp.slug ELSE generateSlug(resp.title)
                  IN  /\ slug' = [slug EXCEPT ![p] = sl]
                      /\ filename' = [filename EXCEPT ![p] = Today \o "-" \o sl \o ".mdx"]
                      /\ pc' = [pc EXCEPT ![p] = "writeDoc"]
                      /\ UNCHANGED <<exitCode, error>>
             ELSE /\ Fail(p, ErrorOfReply(resp.kind))
                  /\ UNCHANGED <<slug, filename>>
    /\ UNCHANGED <<fsVars, slugVars, env, usedImages, usedTopics, selectedTopic,
                   selectedImage, posts, steps, requests, fsAtLaunch, runsLeft>>

\* lines 380-388: the directory is made when missing; the write may fail
WriteDocument(p) ==
    /\ pc[p] = "writeDoc"
    /\ genDir' = TRUE
    /\ \E written \in BOOLEAN :
          IF written
          THEN /\ genDocs' = genDocs \cup {filename[p]}
               /\ Did(p, "document")
               /\ pc' = [pc EXCEPT ![p] = "loadIndex"]
               /\ UNCHANGED <<exitCode, error>>
          ELSE /\ Fail(p, "document write failed")
               /\ UNCHANGED <<genDocs, steps>>
    /\ UNCHANGED <<postsIndex, genIndex, slugVars, env, usedImages, usedTopics,
                   selectedTopic, selectedImage, response, slug, filename, posts,
                   requests, fsAtLaunch, runsLeft>>

\* lines 391-396: JSON.parse of the existing index is not guarded
LoadIndex(p) ==
    /\ pc[p] = "loadIndex"
    /\ IF ~ existsSync(genIndex)
       THEN /\ posts' = [posts EXCEPT ![p] = ArrayFile(<<>>)]
            /\ pc' = [pc EXCEPT ![p] = "writeIndex"]
            /\ UNCHANGED <<exitCode, error>>
       ELSE IF genIndex.kind = "malformed"
       THEN /\ Fail(p, "SyntaxError: index is not JSON")
            /\ UNCHANGED posts
       ELSE /\ posts' = [posts EXCEPT ![p] = genIndex]
            /\ pc' = [pc EXCEPT ![p] = "writeIndex"]
            /\ UNCHANGED <<exitCode, error>>
    /\ UNCHANGED <<fsVars, slugVars, env, usedImages, usedTopics, selectedTopic,
                   selectedImage, response, slug, filename, steps, requests, fsAtLaunch,
                   runsLeft>>

\* push in place of unshift: the new record goes last
upsert_Push(items, post) ==
    SelectSeq(items, LAMBDA q : q.slug # post.slug) \o <<post>>

\* the duplicate looked for by title, not by slug
upsert_ByTitle(items, post) ==
    <<post>> \o SelectSeq(items, LAMBDA q : q.title # post.title)

\* lines 416-418: posts.filter(p => p.slug !== slug), then unshift(newPost)
upsert(items, post) ==
    <<post>> \o SelectSeq(items, LAMBDA q : q.slug # post.slug)

\* the document removed again when the index cannot be updated
WriteIndex_Cleanup(p) ==
    /\ pc[p] = "writeIndex"
    /\ IF posts[p].kind # "array"
       THEN /\ Fail(p, "TypeError: posts.filter is not a function")
            /\ genDocs' = genDocs \ {filename[p]}
            /\ UNCHANGED <<genIndex, steps>>
       ELSE \E written \in BOOLEAN :
               IF written
               THEN /\ genIndex' = ArrayFile(upsert(posts[p].items, newPost(p)))
                    /\ Did(p, "index")
                    /\ pc' = [pc EXCEPT ![p] = "report"]
                    /\ UNCHANGED <<exitCode, error, genDocs>>
               ELSE /\ Fail(p, "index write failed")
                    /\ genDocs' = genDocs \ {filename[p]}
                    /\ UNCHANGED <<genIndex, steps>>
    /\ UNCHANGED <<postsIndex, genDir, slugVars, env, usedImages, usedTopics,
                   selectedTopic, selectedImage, response, slug, filename, posts,
                   requests, fsAtLaunch, runsLeft>>

\* the index read again at the moment it is rewritten, in one atomic step
WriteIndex_Reread(p) ==
    /\ pc[p] = "writeIndex"
    /\ IF posts[p].kind # "array"
       THEN /\ Fail(p, "TypeError: posts.filter is not a function")
            /\ UNCHANGED <<genIndex, steps>>
       ELSE \E written \in BOOLEAN :
               IF written
               THEN /\ genIndex' = ArrayFile(upsert(genIndex.items, newPost(p)))
                    /\ Did(p, "index")
                    /\ pc' = [pc EXCEPT ![p] = "report"]
                    /\ UNCHANGED <<exitCode, error>>
               ELSE /\ Fail(p, "index write failed")
                    /\ UNCHANGED <<genIndex, steps>>
    /\ UNCHANGED <<postsIndex, genDir, genDocs, slugVars, env, usedImages, usedTopics,
                   selectedTopic, selectedImage, response, slug, filename, posts,
                   requests, fsAtLaunch, runsLeft>>

\* lines 416-420: a loaded value that is no array has no filter
WriteIndex(p) ==
    /\ pc[p] = "writeIndex"
    /\ IF posts[p].kind # "array"
       THEN /\ Fail(p, "TypeError: posts.filter is not a function")
            /\ UNCHANGED <<genIndex, steps>>
       ELSE \E written \in BOOLEAN :
               IF written
               THEN /\ genIndex' = ArrayFile(upsert(posts[p].items, newPost(p)))
                    /\ Did(p, "index")
                    /\ pc' = [pc EXCEPT ![p] = "report"]
                    /\ UNCHANGED <<exitCode, error>>
               ELSE /\ Fail(p, "index write failed")
                    /\ UNCHANGED <<genIndex, steps>>
    /\ UNCHANGED <<postsIndex, genDir, genDocs, slugVars, env, usedImages, usedTopics,
                   selectedTopic, selectedImage, response, slug, filename, posts,
                   requests, fsAtLaunch, runsLeft>>

\* lines 422-437: the report reads blogData.tags.join, then the function returns
Report(p) ==
    /\ pc[p] = "report"
    /\ IF response[p].tags.defined
       THEN Exit(p, 0) /\ UNCHANGED error
       ELSE Fail(p, "TypeError: blogData.tags is undefined")
    /\ UNCHANGED <<fsVars, slugVars, env, usedImages, usedTopics, selectedTopic,
                   selectedImage, response, slug, filename, posts, steps, requests,
                   fsAtLaunch, runsLeft>>

-----------------------------------------------------------------------------
(* The runs, one after the other *)

\* the runs started one after the other from an absent or empty index
MaxRuns == 3

\* the runs started from an arbitrary state of the disk
MaxRunsAnyDisk == 1

RandomSteps == 2

ProvidedTopics == {"", "Thesis Defense"}

OldPostA ==
    Post("thesis-defense-tips", "Old Thesis Defense Tips", "2025-12-01", "Guides",
         categoryImages["Guides"][1], TRUE, "2025-12-01-thesis-defense-tips.mdx",
         Tags(<<"thesis">>))

OldPostB ==
    Post("literature-review", "How to Conduct a Systematic Literature Review",
         "2025-12-08", "Research", categoryImages["Research"][1], TRUE,
         "2025-12-08-literature-review.mdx", Tags(<<"research">>))

OldPostC ==
    Post("writing-schedule", "Creating a Realistic Thesis Writing Schedule",
         "2025-12-15", "Productivity", categoryImages["Productivity"][2], FALSE,
         "2025-12-15-writing-schedule.mdx", Tags(<<"planning">>))

\* what posts/index.json may hold when a run starts
PostsFiles == {
    AbsentFile, MalformedFile, ObjectFile,
    ArrayFile(<<>>),
    ArrayFile(<<OldPostC, OldPostB, OldPostA>>) }

\* what generated-posts may hold when a run starts: <<genDir, genIndex, genDocs>>
GenStates == {
    <<FALSE, AbsentFile, {}>>,
    <<TRUE, AbsentFile, {}>>,
    <<TRUE, MalformedFile, {}>>,
    <<TRUE, ObjectFile, {}>>,
    <<TRUE, ArrayFile(<<>>), {}>>,
    <<TRUE, ArrayFile(<<OtherShape>>), {}>>,
    <<TRUE, ArrayFile(<<OldPostC, OldPostA, OldPostB>>),
      {OldPostA.filename, OldPostB.filename, OldPostC.filename}>> }

SlugIdle ==
    /\ slugIn = ""
    /\ slugOut = ""
    /\ slugOut2 = ""
    /\ slugPc = "idle"

NothingOnDisk ==
    /\ postsIndex = AbsentFile
    /\ genDir = FALSE
    /\ genIndex = AbsentFile
    /\ genDocs = {}

Idle ==
    /\ pc = [p \in Procs |-> "idle"]
    /\ env = [p \in Procs |-> [apiKey |-> FALSE, TOPIC |-> ""]]
    /\ usedImages = [p \in Procs |-> <<>>]
    /\ usedTopics = [p \in Procs |-> <<>>]
    /\ selectedTopic = [p \in Procs |-> NoTopic]
    /\ selectedImage = [p \in Procs |-> ""]
    /\ response = [p \in Procs |-> NoResponse]
    /\ slug = [p \in Procs |-> ""]
    /\ filename = [p \in Procs |-> ""]
    /\ posts = [p \in Procs |-> AbsentFile]
    /\ exitCode = [p \in Procs |-> NotExited]
    /\ error = [p \in Procs |-> ""]
    /\ steps = [p \in Procs |-> <<>>]
    /\ requests = [p \in Procs |-> 0]
    /\ fsAtLaunch = [p \in Procs |-> <<FALSE, AbsentFile, {}>>]

NoRuns == Idle /\ runsLeft = 0

\* any state of the two directories, and no run started yet
Init ==
    /\ postsIndex \in PostsFiles
    /\ \E g \in GenStates : genDir = g[1] /\ genIndex = g[2] /\ genDocs = g[3]
    /\ Idle
    /\ runsLeft = MaxRunsAnyDisk
    /\ SlugIdle

Step(p) ==
    \/ Launch(p, ProvidedTopics)
    \/ ReadHistory(p)
    \/ SelectTopic(p, RandomValues(RandomSteps))
    \/ SelectImage(p, RandomValues(RandomSteps))
    \/ SendRequest(p)
    \/ ReceiveResponse(p)
    \/ WriteDocument(p)
    \/ LoadIndex(p)
    \/ WriteIndex(p)
    \/ Report(p)

\* one invocation at a time
Next == Step(1)

Spec == Init /\ [][Next]_vars

\* the index file absent or empty when the first run starts
InitFresh ==
    /\ postsIndex = AbsentFile
    /\ \E g \in {<<FALSE, AbsentFile, {}>>, <<TRUE, ArrayFile(<<>>), {}>>} :
          genDir = g[1] /\ genIndex = g[2] /\ genDocs = g[3]
    /\ Idle
    /\ runsLeft = MaxRuns
    /\ SlugIdle

SpecFresh == InitFresh /\ [][Next]_vars

\* runs in a working directory that has no generated-posts yet, with or without
\* a posts/index.json
FeedbackRuns == 2

InitFeedback ==
    /\ postsIndex \in {AbsentFile, ArrayFile(<<OldPostC, OldPostB, OldPostA>>)}
    /\ genDir = FALSE
    /\ genIndex = AbsentFile
    /\ genDocs = {}
    /\ Idle
    /\ runsLeft = FeedbackRuns
    /\ SlugIdle

\* no topic is supplied: the topic comes from the history
StepFeedback(p) ==
    \/ Launch(p, {""})
    \/ ReadHistory(p)
    \/ SelectTopic(p, RandomValues(RandomSteps))
    \/ SelectImage(p, RandomValues(RandomSteps))
    \/ SendRequest(p)
    \/ ReceiveResponse(p)
    \/ WriteDocument(p)
    \/ LoadIndex(p)
    \/ WriteIndex(p)
    \/ Report(p)

NextFeedback == StepFeedback(1)

SpecFeedback == InitFeedback /\ [][NextFeedback]_vars

-----------------------------------------------------------------------------
(* Two invocations at once in the same working directory: each is a process  *)
(* of its own, and the steps of the two interleave in any order              *)

ConcurrentRuns == 2

InitConcurrent ==
    /\ postsIndex = AbsentFile
    /\ \E g \in {<<FALSE, AbsentFile, {}>>,
                 <<TRUE, ArrayFile(<<OldPostB, OldPostA>>),
                   {OldPostA.filename, OldPostB.filename}>>} :
          genDir = g[1] /\ genIndex = g[2] /\ genDocs = g[3]
    /\ Idle
    /\ runsLeft = ConcurrentRuns
    /\ SlugIdle

\* no topic is supplied and Math.random() gives 0 in these runs: which topic
\* and image a run selects plays no part in what happens to the index
StepConcurrent(p) ==
    \/ Launch(p, {""})
    \/ ReadHistory(p)
    \/ SelectTopic(p, RandomValues(1))
    \/ SelectImage(p, RandomValues(1))
    \/ SendRequest(p)
    \/ ReceiveResponse(p)
    \/ WriteDocument(p)
    \/ LoadIndex(p)
    \/ WriteIndex(p)
    \/ Report(p)

NextConcurrent == \E p \in Procs : StepConcurrent(p)

SpecConcurrent == InitConcurrent /\ [][NextConcurrent]_vars

-----------------------------------------------------------------------------
(* The selectors alone: one run up to its image, over long histories, every *)
(* caller-supplied topic and every outcome of Math.random                   *)

SelectTopics == {
    "", "   ",
    "Thesis Defense", "THESIS DEFENSE", "thesis",
    "Quantum Computing",
    "Notes on How to Choose the Perfect Thesis Topic" }

\* the post a run leaves for pool topic i when the API titles it after the topic
PoolPost(i) ==
    LET t == TOPIC_POOL[i]
        images == categoryImages[t.category]
        sl == generateSlug(t.topic)
    IN  Post(sl, t.topic, Today, t.category, images[((i - 1) % Len(images)) + 1],
             t.featured, Today \o "-" \o sl \o ".mdx", Tags(<<"thesis">>))

PoolHistory(n) == ArrayFile([i \in 1..n |-> PoolPost(i)])

HistoryLengths == {0, 2, 6, 24, 25, 30}

InitSelect ==
    /\ postsIndex \in {AbsentFile} \cup {PoolHistory(n) : n \in HistoryLengths}
    /\ genDir = FALSE
    /\ genIndex = AbsentFile
    /\ genDocs = {}
    /\ Idle
    /\ runsLeft = 1
    /\ SlugIdle

NextSelect ==
    \/ Launch(1, SelectTopics)
    \/ ReadHistory(1)
    \/ SelectTopic(1, RandomValues(PoolSize))
    \/ SelectImage(1, RandomValues(PoolSize))

SpecSelect == InitSelect /\ [][NextSelect]_vars

-----------------------------------------------------------------------------
(* selectUniqueImage alone: the call of line 257 for any category name and  *)
(* any list of recently used images                                         *)

\* the keys of the map, names no object defines, and names every object inherits
CategoryNames ==
    DOMAIN categoryImages
    \cup {"", "guides", "Tutorials", "Case Studies"}
    \cup {"constructor", "toString", "__proto__"}

Guides == categoryImages[DefaultCategory]

\* nothing recent; part of the default list; all of it; all of it among others
RecentImageLists == {
    <<>>,
    SubSeq(Guides, 1, 3),
    <<Guides[2], Guides[4], Guides[5], Guides[6], Guides[1]>>,
    Guides,
    categoryImages["Research"] \o Guides \o <<Undefined>> }

InitImage ==
    /\ NothingOnDisk
    /\ pc = [p \in Procs |-> IF p = 1 THEN "image" ELSE "idle"]
    /\ env = [p \in Procs |-> [apiKey |-> (p = 1), TOPIC |-> ""]]
    /\ \E recent \in RecentImageLists :
          usedImages = [p \in Procs |-> IF p = 1 THEN recent ELSE <<>>]
    /\ usedTopics = [p \in Procs |-> <<>>]
    /\ \E category \in CategoryNames :
          selectedTopic = [p \in Procs |->
                             IF p = 1
                             THEN [topic |-> "Thesis Defense", category |-> category,
                                   featured |-> FALSE]
                             ELSE NoTopic]
    /\ selectedImage = [p \in Procs |-> ""]
    /\ response = [p \in Procs |-> NoResponse]
    /\ slug = [p \in Procs |-> ""]
    /\ filename = [p \in Procs |-> ""]
    /\ posts = [p \in Procs |-> AbsentFile]
    /\ exitCode = [p \in Procs |-> NotExited]
    /\ error = [p \in Procs |-> ""]
    /\ steps = [p \in Procs |-> IF p = 1 THEN <<"history", "topic">> ELSE <<>>]
    /\ requests = [p \in Procs |-> 0]
    /\ fsAtLaunch = [p \in Procs |-> <<FALSE, AbsentFile, {}>>]
    /\ runsLeft = 0
    /\ SlugIdle

NextImage == SelectImage(1, RandomValues(Len(Guides)))

SpecImage == InitImage /\ [][NextImage]_vars

-----------------------------------------------------------------------------
(* The titles generateSlug is applied to *)

MaxTitleLen == 3

TitleAlphabet == {"a", "B", "7", " ", "-", "!"}

RECURSIVE StringsOfLen(_)
StringsOfLen(n) ==
    IF n = 0 THEN {""}
    ELSE {c \o s : c \in TitleAlphabet, s \in StringsOfLen(n - 1)}

ShortTitles == UNION {StringsOfLen(n) : n \in 0..MaxTitleLen}

\* a slug-shaped prefix that puts the end of a short title at the 60-character cut
LongPrefix == "a-very-long-title-that-fills-the-slug-up-to-its-limit-ab-78"

SlugTitles == ShortTitles \cup {LongPrefix \o s : s \in ShortTitles}

SlugInit ==
    /\ slugIn \in SlugTitles
    /\ slugOut = ""
    /\ slugOut2 = ""
    /\ slugPc = "in"
    /\ NothingOnDisk
    /\ NoRuns

SlugOnce ==
    /\ slugPc = "in"
    /\ slugOut' = generateSlug(slugIn)
    /\ slugPc' = "once"
    /\ UNCHANGED <<slugIn, slugOut2, fsVars, runVars>>

SlugTwice ==
    /\ slugPc = "once"
    /\ slugOut2' = generateSlug(slugOut)
    /\ slugPc' = "twice"
    /\ UNCHANGED <<slugIn, slugOut, fsVars, runVars>>

SlugNext == SlugOnce \/ SlugTwice

SpecSlug == SlugInit /\ [][SlugNext]_vars

-----------------------------------------------------------------------------
(* Properties *)

Range(s) == {s[i] : i \in 1..Len(s)}

TopicChosen(p) == "topic" \in Range(steps[p])
ImageChosen(p) == "image" \in Range(steps[p])
DocumentWritten(p) == "document" \in Range(steps[p])
IndexWritten(p) == "index" \in Range(steps[p])

\* the records of generated-posts/index.json when run p started
PreviousItems(p) ==
    IF fsAtLaunch[p][2].kind = "array" THEN fsAtLaunch[p][2].items ELSE <<>>

DiskUntouched(p) == <<genDir, genIndex, genDocs>> = fsAtLaunch[p]

\* the image selection of run p is over: it gave an image or it threw
ImageSelectionOver(p) == TopicChosen(p) /\ pc[p] \notin {"topic", "image"}

\* C1: once a run has written the index, the index is the run's new record
\* followed by exactly the previous records with another slug, unchanged and in
\* their previous order; it holds exactly one record with the new slug.
C1_IndexUpsert ==
    \A p \in Procs : IndexWritten(p) =>
        LET prev == PreviousItems(p)
            keep == {i \in 1..Len(prev) : prev[i].slug # slug[p]}
            nth(j) == CHOOSE i \in keep : Cardinality({k \in keep : k < i}) = j - 1
        IN  /\ genIndex.kind = "array"
            /\ Len(genIndex.items) = 1 + Cardinality(keep)
            /\ genIndex.items[1].slug = slug[p]
            /\ genIndex.items[1].title = response[p].title
            /\ genIndex.items[1].image = selectedImage[p]
            /\ genIndex.items[1].category = selectedTopic[p].category
            /\ genIndex.items[1].featured = selectedTopic[p].featured
            /\ genIndex.items[1].filename = filename[p]
            /\ \A j \in 1..Cardinality(keep) : genIndex.items[j + 1] = prev[nth(j)]
            /\ Cardinality({i \in 1..Len(genIndex.items) :
                               genIndex.items[i].slug = slug[p]}) = 1

\* a successful run has replaced a record of its slug and kept two others
C1_Witness ==
    \E p \in Procs :
        /\ IndexWritten(p)
        /\ pc[p] = "exited"
        /\ exitCode[p] = 0
        /\ \E i \in 1..Len(PreviousItems(p)) : PreviousItems(p)[i].slug = slug[p]
        /\ Len(genIndex.items) >= 3

\* C2: starting from an absent or empty index, after any sequence of runs one
\* after the other, no two records of the index have the same slug.
C2_UniqueSlugs ==
    genIndex.kind = "array" =>
        \A i, j \in 1..Len(genIndex.items) :
            i # j => genIndex.items[i].slug # genIndex.items[j].slug

\* a later run has replaced the record of a slug used before, beside another record
C2_Witness ==
    /\ genIndex.kind = "array"
    /\ Len(genIndex.items) >= 2
    /\ \E p \in Procs :
          /\ IndexWritten(p)
          /\ \E i \in 1..Len(PreviousItems(p)) : PreviousItems(p)[i].slug = slug[p]

\* the words of a text that are longer than 4 characters
SignificantWords(text) == longWords(text)

\* the significant-word overlap exceeds 40%: the share of the topic's own
\* significant words that occur among the recent title's significant words
OverlapExceeds(own, theirs) ==
    LET shared == {j \in 1..Len(own) : own[j] \in theirs}
    IN  /\ Len(own) > 0
        /\ 100 * Cardinality(shared) > 40 * Len(own)

\* the significant words of each pool record, lower-cased as the recent titles are
PoolSignificantWords ==
    [i \in 1..PoolSize |-> SignificantWords(toLowerCase(TOPIC_POOL[i].topic))]

\* the pool records whose overlap exceeds 40% for no recent title
PassingTopics(recentTitles) ==
    LET theirs == [k \in 1..Len(recentTitles) |-> Range(SignificantWords(recentTitles[k]))]
    IN  {i \in 1..PoolSize :
            \A k \in 1..Len(recentTitles) :
                ~ OverlapExceeds(PoolSignificantWords[i], theirs[k])}

NoOverride(p) == trim(env[p].TOPIC) = ""

\* C3: with no topic override, the selected topic is a pool record, and when at
\* least 6 pool records pass the 40% overlap filter against every recent title it
\* is one of those.
C3_TopicDeduplication ==
    \A p \in Procs : (TopicChosen(p) /\ NoOverride(p)) =>
        LET passing == PassingTopics(usedTopics[p])
        IN  /\ \E i \in 1..PoolSize : selectedTopic[p] = TOPIC_POOL[i]
            /\ Cardinality(passing) >= 6
                  => \E i \in passing : selectedTopic[p] = TOPIC_POOL[i]

\* a topic was selected with exactly 6 pool records passing the filter
C3_Witness ==
    \E p \in Procs :
        /\ TopicChosen(p)
        /\ NoOverride(p)
        /\ Cardinality(PassingTopics(usedTopics[p])) = 6

\* C4: the selected image is a URL of the category's curated list, and not a
\* recently used one whenever the curated list has a URL that was not recently used.
C4_ImageDeduplication ==
    \A p \in Procs : ImageChosen(p) =>
        LET curated == Range(categoryImages[selectedTopic[p].category])
            recent == Range(usedImages[p])
        IN  /\ selectedImage[p] \in curated
            /\ curated \ recent # {} => selectedImage[p] \notin recent

\* an image was selected for a category all of whose images were recently used
C4_Witness ==
    \E p \in Procs :
        /\ ImageChosen(p)
        /\ Range(categoryImages[selectedTopic[p].category]) \subseteq Range(usedImages[p])

WriteErrors == {"document write failed", "index write failed"}

\* C5: whatever the index files hold, an absent, malformed or wrongly shaped index
\* gives empty history views, and a run whose API answer is a payload and whose
\* writes do not fail writes the document and the index record.
C5_CorruptIndexNeverBlocks ==
    \A p \in Procs :
        /\ ("history" \in Range(steps[p]) /\ postsIndex.kind # "array")
              => (usedImages[p] = <<>> /\ usedTopics[p] = <<>>)
        /\ (pc[p] = "exited" /\ response[p].kind = "payload" /\ error[p] \notin WriteErrors)
              => (DocumentWritten(p) /\ IndexWritten(p))

\* C6: a run whose API answer has a non-success status exits with 1 and leaves
\* generated-posts as it was: no directory made, no document, no index written.
C6_UpstreamFailure ==
    \A p \in Procs : (pc[p] = "exited" /\ response[p].kind = "notok") =>
        /\ exitCode[p] = 1
        /\ DiskUntouched(p)
        /\ ~ DocumentWritten(p)
        /\ ~ IndexWritten(p)

\* a run has ended on a non-success answer
C6_Witness ==
    \E p \in Procs :
        /\ pc[p] = "exited"
        /\ response[p].kind = "notok"
        /\ requests[p] = 1

\* C7: a run that has ended has exit code 0 or 1; 0 exactly when it wrote the
\* document and then the index record, 1 exactly when the API key was missing or
\* a step failed.
C7_ExitCodes ==
    \A p \in Procs : pc[p] = "exited" =>
        /\ exitCode[p] \in {0, 1}
        /\ exitCode[p] = 0 <=> (DocumentWritten(p) /\ IndexWritten(p))
        /\ exitCode[p] = 1 <=> (~ env[p].apiKey \/ error[p] # "")

\* the pool records a caller-supplied topic matches, ignoring case
MatchingTopics(override) ==
    {i \in 1..PoolSize :
        \/ includes(toLowerCase(TOPIC_POOL[i].topic), toLowerCase(override))
        \/ includes(toLowerCase(override), toLowerCase(TOPIC_POOL[i].topic))}

\* C8: with a non-blank topic override the selected record is the first pool
\* record that contains the override or is contained in it, ignoring case; with
\* no such record it is the override itself, in category Guides, not featured.
\* "Thesis Defense" gives category Guides, featured.  Whatever the history.
C8_TopicOverride ==
    \A p \in Procs : (TopicChosen(p) /\ ~ NoOverride(p)) =>
        LET override == env[p].TOPIC
            matching == MatchingTopics(override)
        IN  /\ matching # {} =>
                  selectedTopic[p] = TOPIC_POOL[CHOOSE i \in matching : \A j \in matching : i <= j]
            /\ matching = {} =>
                  selectedTopic[p] = [topic |-> override, category |-> "Guides",
                                      featured |-> FALSE]
            /\ override = "Thesis Defense" =>
                  (selectedTopic[p].category = "Guides" /\ selectedTopic[p].featured)

\* "Thesis Defense" was given while the history already holds that topic's title
C8_Witness ==
    \E p \in Procs :
        /\ TopicChosen(p)
        /\ env[p].TOPIC = "Thesis Defense"
        /\ selectedTopic[p].topic = "How to Prepare for Your Thesis Defense"
        /\ "how to prepare for your thesis defense" \in Range(usedTopics[p])

\* C9: a run started without the API key has exited with 1 having done nothing:
\* no history read, no topic or image selected, no request sent, no file written.
C9_MissingCredential ==
    \A p \in Procs : (pc[p] # "idle" /\ ~ env[p].apiKey) =>
        /\ pc[p] = "exited"
        /\ exitCode[p] = 1
        /\ steps[p] = <<>>
        /\ requests[p] = 0
        /\ usedImages[p] = <<>>
        /\ usedTopics[p] = <<>>
        /\ selectedTopic[p] = NoTopic
        /\ selectedImage[p] = ""
        /\ DiskUntouched(p)

\* a run without the API key has ended while there was a history to read
C9_Witness ==
    \E p \in Procs :
        /\ pc[p] = "exited"
        /\ ~ env[p].apiKey
        /\ postsIndex.kind = "array"
        /\ Len(postsIndex.items) > 0

\* lowercase letters, digits and single hyphens only, at most 60 characters
IsSlugShaped(s) ==
    /\ Len(s) <= 60
    /\ \A i \in 1..Len(s) : CharAt(s, i) \in LowerChars \cup DigitChars \cup {"-"}
    /\ \A i \in 1..(Len(s) - 1) : ~ (CharAt(s, i) = "-" /\ CharAt(s, i + 1) = "-")

\* C10: generateSlug returns a slug-shaped string unchanged, and applied to its
\* own result it returns that result.
C10_SlugIdempotent ==
    /\ (slugPc \in {"once", "twice"} /\ IsSlugShaped(slugIn)) => slugOut = slugIn
    /\ slugPc = "twice" => slugOut2 = slugOut

\* a slug-shaped title of exactly 60 characters, with hyphens, went through twice
C10_Witness ==
    /\ slugPc = "twice"
    /\ IsSlugShaped(slugIn)
    /\ Len(slugIn) = 60
    /\ includes(slugIn, "-")

\* C11: for a category name that is not a key of the curated image map, the
\* image selection gives a URL of the "Guides" list, and not a recently used one
\* whenever the "Guides" list has a URL that was not recently used.
C11_UnrecognizedCategory ==
    \A p \in Procs :
        (ImageSelectionOver(p) /\ selectedTopic[p].category \notin DOMAIN categoryImages) =>
            LET curated == Range(categoryImages["Guides"])
                recent == Range(usedImages[p])
            IN  /\ selectedImage[p] \in curated
                /\ curated \ recent # {} => selectedImage[p] \notin recent

\* the steps of a run, in the order of the code
StepOrder == <<"history", "topic", "image", "request", "document", "index">>

IsPrefix(s, t) == Len(s) <= Len(t) /\ \A i \in 1..Len(s) : s[i] = t[i]

CountOf(s, x) == Cardinality({i \in 1..Len(s) : s[i] = x})

\* what holds of the steps done so far
LinearSoFar(p) ==
    /\ IsPrefix(steps[p], StepOrder)
    /\ requests[p] = CountOf(steps[p], "request")
    /\ requests[p] <= 1
    /\ error[p] # "" => pc[p] = "exited"
    /\ (pc[p] = "exited" /\ env[p].apiKey) => requests[p] = 1

\* a run does one step at a time, and none once a step has failed
OneStepAtATime(p) ==
    \/ steps'[p] = steps[p]
    \/ steps'[p] = <<>>
    \/ /\ error[p] = ""
       /\ pc[p] # "exited"
       /\ Len(steps'[p]) = Len(steps[p]) + 1
       /\ IsPrefix(steps[p], steps'[p])

\* C12: the steps of a run that has its API key are an initial part of history
\* read, topic selection, image selection, API request, document write, index
\* write, each done at most once and none after a failure; the run sends at most
\* one request, and exactly one by the time it has ended.
C12_LinearSinglePass ==
    /\ [](\A p \in Procs : LinearSoFar(p))
    /\ [][\A p \in Procs : OneStepAtATime(p)]_vars

\* a run has done all six steps, with its one request, and has ended
C12_Witness ==
    \E p \in Procs :
        /\ pc[p] = "exited"
        /\ requests[p] = 1
        /\ steps[p] = StepOrder

HistoryRead(p) == "history" \in Range(steps[p])

\* the records run p found in generated-posts/index.json, newest first, as far
\* as the window of the recent images goes
NewestWritten(p) ==
    LET prev == PreviousItems(p)
    IN  {prev[i] : i \in 1..Min(RecentImageWindow, Len(prev))}

\* C13 as stated: once a run has read its history, every record that the runs
\* before it wrote to the index (the 15 newest of them) has its title among the
\* recent titles and its image among the recently used images.
C13_HistoryFeedback ==
    \A p \in Procs : HistoryRead(p) =>
        \A rec \in NewestWritten(p) :
            /\ toLowerCase(rec.title) \in Range(usedTopics[p])
            /\ rec.image \in Range(usedImages[p])

ImagesOf(file) == {file.items[i].image : i \in 1..Len(file.items)}
LowerTitlesOf(file) == {toLowerCase(file.items[i].title) : i \in 1..Len(file.items)}

\* C13 as amended: no run changes posts/index.json, and the history of a run
\* holds titles and images of posts/index.json only; what the runs wrote to
\* generated-posts/index.json is in the history only if posts/index.json holds it.
C13_HistoryIsPostsIndex ==
    /\ [][postsIndex' = postsIndex]_vars
    /\ [](\A p \in Procs : HistoryRead(p) =>
            /\ Range(usedImages[p]) \subseteq ImagesOf(postsIndex)
            /\ Range(usedTopics[p]) \subseteq LowerTitlesOf(postsIndex))

\* a run has read a history that lacks title and image of the record the run
\* before it wrote
C13_Witness ==
    \E p \in Procs :
        /\ HistoryRead(p)
        /\ Len(PreviousItems(p)) > 0
        /\ genIndex.kind = "array"
        /\ toLowerCase(PreviousItems(p)[1].title) \notin Range(usedTopics[p])
        /\ PreviousItems(p)[1].image \notin Range(usedImages[p])

\* runs p and q have both written the index, and each had loaded the same index,
\* one without the record of the other: both read before either rewrote it
BothReadBeforeEitherWrote(p, q) ==
    /\ p # q
    /\ IndexWritten(p) /\ IndexWritten(q)
    /\ posts[p] = posts[q]
    /\ newPost(q) \notin Range(posts[p].items)
    /\ newPost(p) \notin Range(posts[q].items)

\* the index is what run last made of the index it had loaded, and holds nothing
\* of what run first wrote
LastWriterWins(first, last) ==
    /\ genIndex = ArrayFile(upsert(posts[last].items, newPost(last)))
    /\ newPost(first) # newPost(last) => newPost(first) \notin Range(genIndex.items)

\* run p rewrites the index, and the index is still the one p had loaded
WritesUnraced(p) ==
    /\ ~ IndexWritten(p)
    /\ IndexWritten(p)'
    /\ posts[p].items = genIndex.items

\* C14: when two runs have both read the index before either rewrote it, both
\* document files exist and the index is the last writer's alone: it lacks the
\* record of the first writer.  A run that rewrites the index it had loaded, no
\* other run having written in between, keeps every record of another slug.
C14_LostUpdate ==
    /\ [](\A p, q \in Procs : BothReadBeforeEitherWrote(p, q) =>
            /\ filename[p] \in genDocs
            /\ filename[q] \in genDocs
            /\ LastWriterWins(p, q) \/ LastWriterWins(q, p))
    /\ [][\A p \in Procs : WritesUnraced(p) =>
            \A rec \in Range(genIndex.items) :
                rec.slug # slug[p] => rec \in Range(genIndex'.items)]_vars

\* two runs with different slugs have read an index of two records before
\* either rewrote it, and the index now has three records, not four
C14_Witness ==
    \E p, q \in Procs :
        /\ BothReadBeforeEitherWrote(p, q)
        /\ slug[p] # slug[q]
        /\ Len(posts[p].items) = 2
        /\ Len(genIndex.items) = 3
        /\ genIndex.items[1] = newPost(q)
        /\ filename[p] \in genDocs
        /\ pc[p] = "exited" /\ pc[q] = "exited"

\* what is thrown when the existing index cannot be loaded or used, or the
\* index cannot be written
IndexErrors == {
    "SyntaxError: index is not JSON",
    "TypeError: posts.filter is not a function",
    "index write failed" }

\* run p wrote its document and ended without having written the index
IndexUpdateFailed(p) ==
    /\ pc[p] = "exited"
    /\ DocumentWritten(p)
    /\ ~ IndexWritten(p)

\* C15: a run that wrote its document and then failed to update the index has
\* ended with exit code 1 on an error of the index; its document file is on
\* disk, and the index file is as it was when the run started.
C15_NoCleanup ==
    \A p \in Procs : IndexUpdateFailed(p) =>
        /\ exitCode[p] = 1
        /\ error[p] \in IndexErrors
        /\ filename[p] \in genDocs
        /\ genIndex = fsAtLaunch[p][2]

\* the index could not be written: the document is on disk, and the index, an
\* array of three records, has no record of it
C15_Witness ==
    \E p \in Procs :
        /\ IndexUpdateFailed(p)
        /\ error[p] = "index write failed"
        /\ filename[p] \in genDocs
        /\ genIndex.kind = "array"
        /\ Len(genIndex.items) = 3
        /\ \A i \in 1..Len(genIndex.items) :
              /\ genIndex.items[i].filename # filename[p]
              /\ genIndex.items[i].slug # slug[p]

\* a is b with every upper-case letter replaced by its lower-case letter
IsLowerCased(a, b) ==
    /\ Len(a) = Len(b)
    /\ CharsOf(a) \cap UpperChars = {}
    /\ a = toLowerCase(b)

\* C16: once a run has read an index that is an array of records, the recently
\* used images are exactly the images of its first 15 records, and the recent
\* titles are the lower-cased titles of all its records, one for each position.
C16_AsymmetricWindows ==
    \A p \in Procs : (HistoryRead(p) /\ postsIndex.kind = "array") =>
        LET items == postsIndex.items
        IN  /\ Range(usedImages[p]) = {items[i].image : i \in 1..Len(items) \cap 1..15}
            /\ Len(usedTopics[p]) = Len(items)
            /\ \A i \in 1..Len(items) : IsLowerCased(usedTopics[p][i], items[i].title)

\* a run has selected the image of a record at position 16 or later, which is
\* no recently used image, while the title of that record is a recent title
C16_Witness ==
    \E p \in Procs :
        /\ ImageChosen(p)
        /\ postsIndex.kind = "array"
        /\ \E i \in 16..Len(postsIndex.items) :
              /\ postsIndex.items[i].image = selectedImage[p]
              /\ selectedImage[p] \notin Range(usedImages[p])
              /\ toLowerCase(postsIndex.items[i].title) \in Range(usedTopics[p])

====
